---- MODULE Spec2Model ----
(***************************************************************************)
(* Arvyn browser sidecar: the widget controller of arvyn-extension/app.js  *)
(* (the IIFE revision, lines 140-279) on top of the Socket.IO client set   *)
(* up by arvyn-extension/socket.js (the revision that publishes            *)
(* window.ARVYN_CONFIG).  One action per event-loop task: a user gesture,  *)
(* a promise settling, a MediaRecorder event, a socket event.              *)
(***************************************************************************)
EXTENDS Integers, Sequences, FiniteSets, TLC

(* ----------------------------- bounds ---------------------------------- *)
\* number of inbound status_update events delivered in one run
MaxEvents == 2
\* number of getUserMedia calls in one run that are pending or have produced
\* a MediaRecorder
MaxRec == 2

\* number of halt_session messages emitted in one run
MaxHalts == 2

(* ------------------------- program constants --------------------------- *)
\* io(..., { reconnectionAttempts: 5 })
ReconnectionAttempts == 5

(* ----------------------------- values ---------------------------------- *)
\* backend session identifiers
Ids == {"S1", "S2"}
\* JavaScript null (let currentSessionId = null) and undefined (absent field)
Null == "null"
Undefined == "undefined"
SidOpt == Ids \cup {Undefined}

\* payload.details: absent, or an object whose session_id field may be absent
NoDetails == [present |-> FALSE, session_id |-> Undefined]
DetailsOpt == {NoDetails} \cup {[present |-> TRUE, session_id |-> s] : s \in SidOpt}

\* status codes the backend sends over the channel
EventStatuses ==
    {"PARSING_COMPLETE", "EXECUTING", "AWAITING_APPROVAL", "SUCCESS", "FAILURE"}

\* payload.status as received: a status code, or absent
StatusOpt == EventStatuses \cup {Undefined}

\* status_update payloads { status?, message, session_id?, details? }
Payloads ==
    {p \in [status : StatusOpt, session_id : SidOpt, details : DetailsOpt] :
        p.status # "AWAITING_APPROVAL" => p.details = NoDetails}

\* the approval card: present or not, and the session id its two click
\* closures captured (details.session_id)
NoCard == [open |-> FALSE, session_id |-> Undefined]

RecIds == 1..MaxRec

VARIABLES
    inited,            \* the setTimeout(..., 1000) initialisation callback has run
    status,            \* status_code last rendered (data-status of .arvyn-status)
    card,              \* approval card rendered in the widget
    isRecording,       \* let isRecording
    currentSessionId,  \* let currentSessionId
    mediaRecorder,     \* let mediaRecorder: 0 (undefined) or a recorder
    pendingAcq,        \* getUserMedia promises not yet settled
    rec,               \* per MediaRecorder: its state and the stream's
    upload,            \* per MediaRecorder: the fetch its onstop started
    conn,              \* window.arvynSocket: absent or its connection state
    attempts,          \* reconnection attempts made since the last connect
    outbox,            \* user_decision messages emitted, in order
    nEvents,           \* status_update events delivered so far
    last,              \* the task that ran last
    cardEvent,         \* payload.session_id of the event whose card is shown
    haltedReq,         \* session of the approval request a disconnect interrupted
    reopened,          \* that session's request was delivered again since
    haltPending,       \* the halt now shown began while an approval request was open
    posts,             \* per MediaRecorder: POST /command requests made for its blob
    audioChunks,       \* let audioChunks: the number of fragments in the array
    halts,             \* halt_session messages emitted, in order (chat widget)
    cards,             \* per session id: approval cards in the chat area (chat widget)
    inject             \* content.js loader: script loading, scripts loaded, error logged

vars == <<inited, status, card, isRecording, currentSessionId, mediaRecorder,
          pendingAcq, rec, upload, conn, attempts, outbox, nEvents, last,
          cardEvent, haltedReq, reopened, haltPending,
          posts, audioChunks, halts, cards, inject>>

(* ------------------------ updateWidgetStatus --------------------------- *)
\* <button id="arvyn-mic-button" ${status_code === 'AWAITING_APPROVAL' ? 'disabled' : ''}>
MicDisabled(status_code) == status_code = "AWAITING_APPROVAL"

\* the card markup appended to the widget instead of replacing innerHTML:
\* a card already shown stays, with its listeners
RenderCardAppended(status_code, details) ==
    IF status_code = "AWAITING_APPROVAL" /\ details.present
    THEN [open |-> TRUE, session_id |-> details.session_id]
    ELSE card

\* the card and its listeners exist iff status_code is AWAITING_APPROVAL and
\* details is truthy; innerHTML is rewritten, so an older card never survives
RenderCard(status_code, details) ==
    IF status_code = "AWAITING_APPROVAL" /\ details.present
    THEN [open |-> TRUE, session_id |-> details.session_id]
    ELSE NoCard

\* updateWidgetStatus(message, status_code, details = null)
updateWidgetStatus(status_code, details) ==
    /\ status' = status_code
    /\ card' = RenderCard(status_code, details)

\* a task that renders nothing
NoRender == UNCHANGED <<status, card, cardEvent>>

\* a render that is not the status_update listener's shows no event's card
LocalRender(status_code) ==
    /\ updateWidgetStatus(status_code, NoDetails)
    /\ cardEvent' = Undefined

\* the mic button exists, is enabled and has toggleRecording bound
MicBound == inited /\ ~MicDisabled(status)

(* ------------------------------ injection ------------------------------ *)
\* the scripts content.js loads, in the order of its promise chain
Scripts == <<"lib/socket.io.min.js", "socket.js", "app.js">>

\* no script element is pending
NoScript == "none"

\* the chain has run to its end: every script has loaded
Injected ==
    [loading |-> NoScript, loaded |-> {Scripts[i] : i \in DOMAIN Scripts}, error |-> Null]

(* --------------------------- initialisation ---------------------------- *)
Init ==
    /\ inited = FALSE
    /\ status = "NONE"
    /\ card = NoCard
    /\ isRecording = FALSE
    /\ currentSessionId = Null
    /\ mediaRecorder = 0
    /\ pendingAcq = 0
    /\ rec = [r \in RecIds |-> "unused"]
    /\ upload = [r \in RecIds |-> "none"]
    /\ conn \in {"absent", "connecting"}
    /\ attempts = 0
    /\ outbox = <<>>
    /\ nEvents = 0
    /\ last = "load"
    /\ cardEvent = Undefined
    /\ haltedReq = Null
    /\ reopened = FALSE
    /\ haltPending = FALSE
    /\ posts = [r \in RecIds |-> 0]
    /\ audioChunks = 0
    /\ halts = <<>>
    /\ cards = [s \in SidOpt |-> 0]
    /\ inject = Injected

\* setTimeout(() => { if (window.arvynSocket) {...} else {...} }, 1000)
AppInit ==
    /\ "app.js" \in inject.loaded
    /\ ~inited
    /\ inited' = TRUE
    /\ IF conn # "absent" THEN LocalRender("IDLE") ELSE LocalRender("OFFLINE")
    /\ last' = "init"
    /\ UNCHANGED <<nEvents, isRecording, currentSessionId, mediaRecorder, pendingAcq, rec,
                   upload, conn, attempts, outbox, haltedReq, haltPending, posts, audioChunks, halts, cards, inject, reopened>>

(* ------------------------------ capture -------------------------------- *)
\* recorders created so far are 1..NumRec
NumRec == Cardinality({r \in RecIds : rec[r] # "unused"})

\* toggleRecording, !isRecording branch up to the await: getUserMedia is called
StartGesture ==
    /\ pendingAcq + NumRec < MaxRec
    /\ pendingAcq' = pendingAcq + 1
    /\ NoRender
    /\ UNCHANGED <<isRecording, mediaRecorder, rec>>

\* toggleRecording, else branch: mediaRecorder.stop(); isRecording = false;
\* updateWidgetStatus(..., 'UPLOADING').  stop() only queues the stop event.
StopGesture ==
    /\ mediaRecorder # 0
    /\ rec[mediaRecorder] = "recording"
    /\ rec' = [rec EXCEPT ![mediaRecorder] = "stopping"]
    /\ isRecording' = FALSE
    /\ LocalRender("UPLOADING")
    /\ UNCHANGED <<pendingAcq, mediaRecorder>>

\* async function toggleRecording(), entered by a click
toggleRecording == IF ~isRecording THEN StartGesture ELSE StopGesture

\* click on #arvyn-mic-button: the listener is bound only on an enabled button
MicClick ==
    /\ MicBound
    /\ toggleRecording
    /\ last' = IF ~isRecording THEN "start" ELSE "stop"
    /\ UNCHANGED <<nEvents, inited, currentSessionId, upload, conn, attempts, outbox,
                   haltedReq, haltPending, posts, audioChunks, halts, cards, inject, reopened>>

\* getUserMedia resolves: new MediaRecorder(stream), audioChunks = [],
\* mediaRecorder.start(), isRecording = true, updateWidgetStatus(..., 'RECORDING')
AcquireOk ==
    /\ pendingAcq > 0
    /\ NumRec < MaxRec
    /\ pendingAcq' = pendingAcq - 1
    /\ mediaRecorder' = NumRec + 1
    /\ rec' = [rec EXCEPT ![NumRec + 1] = "recording"]
    /\ audioChunks' = 0
    /\ isRecording' = TRUE
    /\ LocalRender("RECORDING")
    /\ last' = "mic_ok"
    /\ UNCHANGED <<nEvents, inited, currentSessionId, upload, conn, attempts, outbox,
                   haltedReq, haltPending, posts, halts, cards, inject, reopened>>

\* getUserMedia rejects: catch (err) { updateWidgetStatus(..., 'ERROR_MIC') }
AcquireFail ==
    /\ pendingAcq > 0
    /\ pendingAcq' = pendingAcq - 1
    /\ LocalRender("ERROR_MIC")
    /\ last' = "mic_fail"
    /\ UNCHANGED <<nEvents, inited, isRecording, currentSessionId, mediaRecorder, rec,
                   upload, conn, attempts, outbox, haltedReq, haltPending, posts, audioChunks, halts, cards, inject, reopened>>

\* the number of fragments in the blob a stop callback builds: the recorder
\* was started without a timeslice, so its one fragment is pushed by
\* ondataavailable right before onstop runs new Blob(audioChunks)
AudioBlob == audioChunks + 1

\* mediaRecorder.ondataavailable and .onstop of a stopped recorder:
\* audioChunks.push(event.data); submitCommand(new Blob(audioChunks)) starts
\* the fetch; then every track of the stream is stopped
RecorderOnStop(r) ==
    /\ rec[r] = "stopping"
    /\ rec' = [rec EXCEPT ![r] = "released"]
    /\ upload' = [upload EXCEPT ![r] = "inflight"]
    /\ posts' = [posts EXCEPT ![r] = @ + 1]
    /\ audioChunks' = AudioBlob
    /\ NoRender
    /\ last' = "onstop"
    /\ UNCHANGED <<nEvents, inited, isRecording, currentSessionId, mediaRecorder,
                   pendingAcq, conn, attempts, outbox, haltedReq, haltPending, halts, cards, inject,
                   reopened>>

(* ------------------------------ submit --------------------------------- *)
\* the response's session id adopted only while none is set
\* (currentSessionId = currentSessionId || data.session_id)
SubmitOkKeepsSession(r, sid) ==
    /\ upload[r] = "inflight"
    /\ upload' = [upload EXCEPT ![r] = "done"]
    /\ currentSessionId' = IF currentSessionId = Null THEN sid ELSE currentSessionId
    /\ NoRender
    /\ last' = "submit_ok"
    /\ UNCHANGED <<nEvents, inited, isRecording, mediaRecorder, pendingAcq, rec, conn,
                   attempts, outbox, haltedReq, haltPending, posts, audioChunks, halts, cards, inject,
                   reopened>>

\* fetch resolved with response.ok: currentSessionId = data.session_id
SubmitOk(r, sid) ==
    /\ upload[r] = "inflight"
    /\ upload' = [upload EXCEPT ![r] = "done"]
    /\ currentSessionId' = sid
    /\ NoRender
    /\ last' = "submit_ok"
    /\ UNCHANGED <<nEvents, inited, isRecording, mediaRecorder, pendingAcq, rec, conn,
                   attempts, outbox, haltedReq, haltPending, posts, audioChunks, halts, cards, inject, reopened>>

\* the catch block posting the same blob again
SubmitFailRetried(r) ==
    /\ upload[r] = "inflight"
    /\ posts' = [posts EXCEPT ![r] = @ + 1]
    /\ LocalRender("ERROR_SUBMIT")
    /\ last' = "submit_fail"
    /\ UNCHANGED <<nEvents, inited, isRecording, currentSessionId, mediaRecorder,
                   pendingAcq, rec, upload, conn, attempts, outbox, haltedReq, haltPending, audioChunks, halts, cards, inject,
                   reopened>>

\* fetch rejected or !response.ok: updateWidgetStatus(..., 'ERROR_SUBMIT')
SubmitFail(r) ==
    /\ upload[r] = "inflight"
    /\ upload' = [upload EXCEPT ![r] = "done"]
    /\ LocalRender("ERROR_SUBMIT")
    /\ last' = "submit_fail"
    /\ UNCHANGED <<nEvents, inited, isRecording, currentSessionId, mediaRecorder,
                   pendingAcq, rec, conn, attempts, outbox, haltedReq, haltPending, posts, audioChunks, halts, cards, inject, reopened>>

(* ------------------------------ channel -------------------------------- *)
\* the 'status_update' and 'disconnect' listeners of app.js exist once the
\* initialisation callback has found window.arvynSocket
ListenersBound == inited /\ conn # "absent"

\* socket 'connect': only the text of .arvyn-status is replaced
ConnectOk ==
    /\ conn \in {"connecting", "reconnecting"}
    /\ conn' = "connected"
    /\ attempts' = 0
    /\ NoRender
    /\ last' = "connect"
    /\ UNCHANGED <<nEvents, inited, isRecording, currentSessionId, mediaRecorder,
                   pendingAcq, rec, upload, outbox, haltedReq, haltPending, posts, audioChunks, halts, cards, inject,
                   reopened>>

\* a connection attempt fails: socket 'connect_error' logs it.  The manager
\* retries until reconnectionAttempts reconnection attempts have failed (the
\* first attempt of the initial connection is not a reconnection), then gives
\* up with 'reconnect_failed', for which no handler is registered
ConnectError ==
    /\ conn \in {"connecting", "reconnecting"}
    /\ attempts' = attempts + 1
    /\ conn' = IF attempts + 1 >= ReconnectionAttempts + (IF conn = "connecting" THEN 1 ELSE 0)
               THEN "closed" ELSE conn
    /\ NoRender
    /\ last' = "connect_error"
    /\ UNCHANGED <<nEvents, inited, isRecording, currentSessionId, mediaRecorder,
                   pendingAcq, rec, upload, outbox, haltedReq, haltPending, posts, audioChunks, halts, cards, inject,
                   reopened>>

\* the halt skipped while the approval card is shown
OnDisconnectUnlessPaused ==
    IF ListenersBound /\ status # "AWAITING_APPROVAL"
    THEN LocalRender("CRITICAL_HALT")
    ELSE NoRender

\* window.arvynSocket.on('disconnect', () => updateWidgetStatus(..., 'CRITICAL_HALT'))
OnDisconnect ==
    IF ListenersBound THEN LocalRender("CRITICAL_HALT") ELSE NoRender

\* the connection drops: socket.js logs, app.js halts, the manager reconnects
Disconnect ==
    /\ conn = "connected"
    /\ conn' = "reconnecting"
    /\ attempts' = 0
    /\ OnDisconnect
    /\ haltedReq' = IF status = "AWAITING_APPROVAL" /\ card.open
                    THEN card.session_id ELSE haltedReq
    /\ reopened' = IF status = "AWAITING_APPROVAL" /\ card.open
                   THEN FALSE ELSE reopened
    /\ haltPending' = IF status = "CRITICAL_HALT"
                      THEN haltPending
                      ELSE status = "AWAITING_APPROVAL" /\ card.open
    /\ last' = "disconnect"
    /\ UNCHANGED <<posts, audioChunks, halts, cards, inject, nEvents, inited, isRecording, currentSessionId, mediaRecorder,
                   pendingAcq, rec, upload, outbox>>

\* the listener tracking the session of every event that names one
\* (if (session_id) currentSessionId = session_id)
SessionAdoptedFromStatus(payload) ==
    IF payload.session_id \in Ids THEN payload.session_id ELSE currentSessionId

\* currentSessionId after the status_update listener: it assigns nothing
SessionAfterStatus(payload) == currentSessionId

\* window.arvynSocket.on('status_update', (payload) =>
\*     updateWidgetStatus(payload.message, payload.status, payload.details))
OnStatusUpdate(payload) ==
    /\ updateWidgetStatus(payload.status, payload.details)
    /\ currentSessionId' = SessionAfterStatus(payload)
    /\ cardEvent' = IF RenderCard(payload.status, payload.details).open
                    THEN payload.session_id ELSE Undefined

\* the payload names a session, one is current, and they differ
Foreign(payload) ==
    /\ payload.session_id \in Ids
    /\ currentSessionId \in Ids
    /\ payload.session_id # currentSessionId

\* the backend emits status_update; it is dropped while no listener is bound
StatusUpdate(payload) ==
    /\ conn = "connected"
    /\ nEvents < MaxEvents
    /\ nEvents' = nEvents + 1
    /\ IF ListenersBound
       THEN OnStatusUpdate(payload)
       ELSE NoRender /\ UNCHANGED currentSessionId
    /\ reopened' = IF /\ ListenersBound
                      /\ payload.status = "AWAITING_APPROVAL"
                      /\ payload.details.present
                      /\ payload.details.session_id = haltedReq
                   THEN TRUE ELSE reopened
    /\ last' = "status_update"
    /\ UNCHANGED <<inited, isRecording, mediaRecorder, pendingAcq, rec, upload,
                   conn, attempts, outbox, haltedReq, haltPending, posts, audioChunks, halts, cards, inject>>

(* ----------------------------- handshake ------------------------------- *)
\* both buttons bound to the approving call: 'approved' is emitted whatever
\* the button
handleDecisionApproving(decision, session_id) ==
    IF conn # "absent" /\ session_id # Undefined
    THEN /\ outbox' = Append(outbox, [session_id |-> session_id, decision |-> "approved"])
         /\ LocalRender("RESUMING")
    ELSE NoRender /\ UNCHANGED outbox

\* handleDecision(decision, session_id):
\*   if (window.arvynSocket && session_id) { emit(...); updateWidgetStatus(..., 'RESUMING') }
handleDecision(decision, session_id) ==
    IF conn # "absent" /\ session_id # Undefined
    THEN /\ outbox' = Append(outbox, [session_id |-> session_id, decision |-> decision])
         /\ LocalRender("RESUMING")
    ELSE NoRender /\ UNCHANGED outbox

\* approve() / cancel(): a click on #arvyn-approve-btn / #arvyn-cancel-btn, whose
\* listeners call handleDecision(..., details.session_id); without a card
\* there is no button and nothing runs
Decide(decision) ==
    /\ inited
    /\ IF card.open
       THEN handleDecision(decision, card.session_id)
       ELSE NoRender /\ UNCHANGED outbox
    /\ last' = decision
    /\ UNCHANGED <<nEvents, inited, isRecording, currentSessionId, mediaRecorder,
                   pendingAcq, rec, upload, conn, attempts, haltedReq, haltPending, posts, audioChunks, halts, cards, inject, reopened>>

Approve == Decide("approved")
Cancel == Decide("cancelled")

(* --------------------------- specification ----------------------------- *)
\* the tasks app.js runs or observes
Next ==
    \/ AppInit
    \/ MicClick
    \/ AcquireOk
    \/ AcquireFail
    \/ \E r \in RecIds : RecorderOnStop(r)
    \/ \E r \in RecIds, sid \in Ids : SubmitOk(r, sid)
    \/ \E r \in RecIds : SubmitFail(r)
    \/ ConnectOk
    \/ Disconnect
    \/ \E payload \in Payloads : StatusUpdate(payload)
    \/ Approve
    \/ Cancel

Spec == Init /\ [][Next]_vars

\* the channel alone, with the manager's failed attempts counted: app.js has
\* no listener for them, so they change nothing the tasks of Next read
NextChannel ==
    \/ AppInit
    \/ ConnectOk
    \/ ConnectError
    \/ Disconnect
    \/ \E payload \in Payloads : StatusUpdate(payload)

SpecChannel == Init /\ [][NextChannel]_vars

(* ------------------------------- loader -------------------------------- *)
\* the state content.js starts from: loadScript('lib/socket.io.min.js') has
\* appended the first script element and nothing else has run
InitLoader ==
    /\ inited = FALSE
    /\ status = "NONE"
    /\ card = NoCard
    /\ isRecording = FALSE
    /\ currentSessionId = Null
    /\ mediaRecorder = 0
    /\ pendingAcq = 0
    /\ rec = [r \in RecIds |-> "unused"]
    /\ upload = [r \in RecIds |-> "none"]
    /\ conn = "absent"
    /\ attempts = 0
    /\ outbox = <<>>
    /\ nEvents = 0
    /\ last = "load"
    /\ cardEvent = Undefined
    /\ haltedReq = Null
    /\ reopened = FALSE
    /\ haltPending = FALSE
    /\ posts = [r \in RecIds |-> 0]
    /\ audioChunks = 0
    /\ halts = <<>>
    /\ cards = [s \in SidOpt |-> 0]
    /\ inject = [loading |-> Scripts[1], loaded |-> {}, error |-> Null]

\* position of a script in the chain
ScriptIndex(f) == CHOOSE i \in DOMAIN Scripts : Scripts[i] = f

\* .then(() => loadScript(next)): the script the chain loads after f
NextScript(f) ==
    IF ScriptIndex(f) < Len(Scripts) THEN Scripts[ScriptIndex(f) + 1] ELSE NoScript

\* script.onload -> resolve(): the script has run; the next .then appends the
\* next script element.  socket.js running sets window.arvynSocket unless
\* its try block throws.
ScriptLoaded ==
    /\ inject.loading # NoScript
    /\ inject' = [inject EXCEPT !.loading = NextScript(inject.loading),
                                !.loaded = @ \cup {inject.loading}]
    /\ IF inject.loading = "socket.js"
       THEN conn' \in {"connecting", "absent"}
       ELSE conn' = conn
    /\ last' = "onload"
    /\ NoRender
    /\ UNCHANGED <<nEvents, inited, isRecording, currentSessionId, mediaRecorder,
                   pendingAcq, rec, upload, attempts, outbox, haltedReq, haltPending, posts, audioChunks, halts, cards,
                   reopened>>

\* every script appended at once, a failed one not holding up the others and
\* logging nothing
ScriptFailedSkipped ==
    /\ inject.loading # NoScript
    /\ inject' = [inject EXCEPT !.loading = NextScript(inject.loading)]
    /\ last' = "onerror"
    /\ NoRender
    /\ UNCHANGED <<nEvents, inited, isRecording, currentSessionId, mediaRecorder,
                   pendingAcq, rec, upload, conn, attempts, outbox, haltedReq, haltPending, posts, audioChunks, halts, cards,
                   reopened>>

\* script.onerror -> reject(`Failed to load ${fileName}`): the later .then
\* callbacks are skipped and .catch logs "Arvyn Injection Failed:"
ScriptFailed ==
    /\ inject.loading # NoScript
    /\ inject' = [inject EXCEPT !.loading = NoScript, !.error = inject.loading]
    /\ last' = "onerror"
    /\ NoRender
    /\ UNCHANGED <<nEvents, inited, isRecording, currentSessionId, mediaRecorder,
                   pendingAcq, rec, upload, conn, attempts, outbox, haltedReq, haltPending, posts, audioChunks, halts, cards,
                   reopened>>

\* the loader chain, then the channel and the initialisation of app.js
NextLoader ==
    \/ ScriptLoaded
    \/ ScriptFailed
    \/ NextChannel

SpecLoader == InitLoader /\ [][NextLoader]_vars

(* ---------------------------- chat widget ------------------------------ *)
\* The revision of content.js that draws the chat widget itself and has the
\* emergency stop button.  It keeps its own currentSessionId and appends
\* approval cards to the chat area.

\* the variables the chat widget never touches
AppVars == <<inited, status, card, isRecording, mediaRecorder, pendingAcq, rec,
             upload, attempts, cardEvent, haltedReq, reopened,
             haltPending, posts, audioChunks, inject>>

\* socket 'connect': the status dot turns green
WidgetConnect ==
    /\ conn \in {"connecting", "reconnecting"}
    /\ conn' = "connected"
    /\ last' = "connect"
    /\ UNCHANGED <<AppVars, currentSessionId, outbox, nEvents, halts, cards>>

\* socket 'disconnect': the status dot turns red
WidgetDisconnect ==
    /\ conn = "connected"
    /\ conn' = "reconnecting"
    /\ last' = "disconnect"
    /\ UNCHANGED <<AppVars, currentSessionId, outbox, nEvents, halts, cards>>

\* socket 'status_update': if (session_id) currentSessionId = session_id;
\* AWAITING_APPROVAL calls renderApprovalCard(session_id, details), which
\* throws on absent details before the card is appended
WidgetStatusUpdate(payload) ==
    /\ conn = "connected"
    /\ nEvents < MaxEvents
    /\ nEvents' = nEvents + 1
    /\ currentSessionId' = IF payload.session_id \in Ids
                           THEN payload.session_id ELSE currentSessionId
    /\ cards' = IF payload.status = "AWAITING_APPROVAL" /\ payload.details.present
                THEN [cards EXCEPT ![payload.session_id] = @ + 1]
                ELSE cards
    /\ last' = "status_update"
    /\ UNCHANGED <<AppVars, conn, outbox, halts>>

\* the halt keeping no session afterwards (currentSessionId = null)
HaltClickForgetsSession ==
    /\ IF currentSessionId \in Ids
       THEN /\ Len(halts) < MaxHalts
            /\ halts' = Append(halts, [session_id |-> currentSessionId])
            /\ currentSessionId' = Null
       ELSE UNCHANGED <<halts, currentSessionId>>
    /\ last' = "halt"
    /\ UNCHANGED <<AppVars, conn, outbox, nEvents, cards>>

\* haltBtn.onclick: if (currentSessionId) socket.emit('halt_session',
\* { session_id: currentSessionId }); a chat message is added either way
HaltClick ==
    /\ IF currentSessionId \in Ids
       THEN /\ Len(halts) < MaxHalts
            /\ halts' = Append(halts, [session_id |-> currentSessionId])
       ELSE UNCHANGED halts
    /\ last' = "halt"
    /\ UNCHANGED <<AppVars, conn, currentSessionId, outbox, nEvents, cards>>

NextWidget ==
    \/ WidgetConnect
    \/ WidgetDisconnect
    \/ \E payload \in Payloads : WidgetStatusUpdate(payload)
    \/ HaltClick

SpecWidget == Init /\ [][NextWidget]_vars

(* ------------------------------ sanity --------------------------------- *)
\* mediaRecorder.stop() is only ever called on a recorder that is recording
StopNeverThrows ==
    isRecording => mediaRecorder # 0 /\ rec[mediaRecorder] = "recording"

(* ------------------------------ claims --------------------------------- *)
\* the message emitted by this step, when the step emits one
Emits == outbox' # outbox
Emitted == outbox'[Len(outbox')]

\* user_decision messages emitted so far that name session s
DecisionsFor(s) == {i \in DOMAIN outbox : outbox[i].session_id = s}

\* C1: a status_update whose session_id equals the current session id sets the
\* visible state to its status; one that names another session than the
\* current one changes neither the visible state nor the stored details.
C1_ForeignEventsIgnored ==
    [][\A p \in Payloads :
          (StatusUpdate(p) /\ ListenersBound /\ currentSessionId \in Ids) =>
              /\ p.session_id = currentSessionId => status' = p.status
              /\ Foreign(p) => status' = status /\ card' = card]_vars

\* C2: after a successful submission returned the current session id and an
\* AWAITING_APPROVAL event named that session at the top level of its payload,
\* with details that carry no session id, one approve() emits exactly one
\* user_decision {session_id: current, decision: "approved"} and the state
\* becomes RESUMING.
C2_HappyPathHandshake ==
    [][(/\ Approve
        /\ status = "AWAITING_APPROVAL"
        /\ card.open
        /\ card.session_id = Undefined
        /\ currentSessionId \in Ids
        /\ cardEvent = currentSessionId
        /\ outbox = <<>>) =>
            /\ outbox' = <<[session_id |-> currentSessionId, decision |-> "approved"]>>
            /\ status' = "RESUMING"]_vars

\* C3: whatever approve()/cancel() calls are made and however often the
\* backend delivers AWAITING_APPROVAL for a session, at most one
\* user_decision is ever emitted for that session id.
C3_OneDecisionPerSession ==
    \A s \in Ids : Cardinality(DecisionsFor(s)) <= 1

\* the states the C4 claim lists
HaltableStates ==
    {"IDLE", "RECORDING", "UPLOADING", "PARSING_COMPLETE", "EXECUTING",
     "AWAITING_APPROVAL", "RESUMING", "SUCCESS", "FAILURE", "ERROR_MIC",
     "ERROR_SUBMIT"}

\* C4: a disconnect notification moves the state to CRITICAL_HALT from every
\* other state, unconditionally.
C4_DisconnectHalts ==
    [][(Disconnect /\ status \in HaltableStates) => (status' = "CRITICAL_HALT")]_vars

\* C4 witness: the disconnect that just ran found the approval card open and
\* left CRITICAL_HALT.
C4_Witness ==
    /\ last = "disconnect"
    /\ haltedReq # Null
    /\ status = "CRITICAL_HALT"

\* C5 as claimed: once a disconnect has interrupted a pending approval
\* request, no user_decision for that request's session is emitted at any
\* later point.
C5_NeverDecidedAfterHalt ==
    [][(haltedReq \in Ids /\ Emits) => (Emitted.session_id # haltedReq)]_vars

\* C5 amended: a disconnect during AWAITING_APPROVAL leaves CRITICAL_HALT with
\* the card removed; no task emits a user_decision while the state is
\* CRITICAL_HALT; and none is emitted for the interrupted request's session
\* before the backend has delivered AWAITING_APPROVAL with details for that
\* session again.
C5_HaltClosesGate ==
    [][/\ (Disconnect /\ status = "AWAITING_APPROVAL") =>
              (status' = "CRITICAL_HALT" /\ card' = NoCard)
       /\ (status = "CRITICAL_HALT") => ~Emits
       /\ (haltedReq \in Ids /\ ~reopened' /\ Emits) =>
              (Emitted.session_id # haltedReq)]_vars

\* C5 witness: approve() or cancel() was just called in CRITICAL_HALT after a
\* disconnect interrupted a request that was not delivered again, and nothing
\* has been emitted.
C5_Witness ==
    /\ last \in {"approved", "cancelled"}
    /\ status = "CRITICAL_HALT"
    /\ haltedReq \in Ids
    /\ ~reopened
    /\ outbox = <<>>

\* C6: whenever a user_decision is emitted the state is AWAITING_APPROVAL and,
\* a session being current, the decision's session id is that session's.
C6_DecisionOnlyForCurrentSession ==
    [][Emits =>
          /\ status = "AWAITING_APPROVAL"
          /\ currentSessionId \in Ids => Emitted.session_id = currentSessionId]_vars

\* C7: an open approval request (AWAITING_APPROVAL with its card) is replaced
\* only by approve(), cancel(), a status event or a disconnect.
C7_OnlyDecisionEventOrDisconnectEndsApproval ==
    [][(status = "AWAITING_APPROVAL" /\ card.open
            /\ (status' # status \/ card' # card)) =>
          last' \in {"approved", "cancelled", "status_update", "disconnect"}]_vars

\* C8: the current session id changes only through a successful submission, or
\* by adoption from a status event while no session id is set; in particular
\* an event naming another session leaves an adopted session id alone.
C8_SessionChangesOnlyBySubmission ==
    [][currentSessionId' # currentSessionId =>
          \/ \E r \in RecIds, sid \in Ids : SubmitOk(r, sid)
          \/ (\E p \in Payloads : StatusUpdate(p)) /\ currentSessionId = Null]_vars

\* C8 witness: the listener just handled an approval event naming another
\* session than the one adopted from a submission.
C8_Witness ==
    /\ last = "status_update"
    /\ currentSessionId \in Ids
    /\ cardEvent \in Ids
    /\ cardEvent # currentSessionId

\* C9: a failed microphone acquisition leaves the current session id alone,
\* leaves no approval card, starts no upload and leaves isRecording false.
C9_MicFailureIsInert ==
    [][AcquireFail =>
          /\ currentSessionId' = currentSessionId
          /\ ~card'.open
          /\ upload' = upload
          /\ isRecording' = FALSE]_vars

\* C10: a start-capture gesture made in UPLOADING, PARSING_COMPLETE, EXECUTING
\* or RESUMING (states other than IDLE, ERROR_MIC and ERROR_SUBMIT) is a
\* no-op: it acquires no device and changes no state.
C10_StartOnlyFromIdleOrError ==
    [][(MicClick /\ ~isRecording
            /\ status \in {"UPLOADING", "PARSING_COMPLETE", "EXECUTING", "RESUMING"}) =>
          /\ pendingAcq' = pendingAcq
          /\ status' = status]_vars

\* the event names the session of the request the halt interrupted
NamesHaltedSession(p) ==
    p.session_id = haltedReq \/ (p.details.present /\ p.details.session_id = haltedReq)

\* C11: a reconnect after a disconnect returns the state to IDLE only if no
\* approval request was open at the disconnect; if one was, the state stays
\* CRITICAL_HALT after the reconnect until a status event for that request's
\* session arrives.
C11_HaltKeptWhilePending ==
    [][/\ (ConnectOk /\ conn = "reconnecting" /\ status' = "IDLE") => ~haltPending
       /\ (haltPending /\ conn = "connected"
               /\ status = "CRITICAL_HALT" /\ status' # "CRITICAL_HALT") =>
              \E p \in Payloads : StatusUpdate(p) /\ NamesHaltedSession(p)]_vars

\* a status_update without status, without session id, or asking for approval
\* without details
Malformed(p) ==
    \/ p.status = Undefined
    \/ p.session_id = Undefined
    \/ p.status = "AWAITING_APPROVAL" /\ ~p.details.present

\* C12: a malformed status_update is dropped: the visible state, the approval
\* card and the current session id are as before.
C12_MalformedEventsDropped ==
    [][\A p \in Payloads :
          (StatusUpdate(p) /\ ListenersBound /\ Malformed(p)) =>
              /\ status' = status
              /\ card' = card
              /\ currentSessionId' = currentSessionId]_vars

\* C13: every disconnect reaches the controller, also one that happens before
\* the delayed listener registration: whenever the channel is down after a
\* disconnect and the widget has rendered, the state shown is CRITICAL_HALT.
C13_NeverDownAndNotHalted ==
    (inited /\ conn = "reconnecting") => status = "CRITICAL_HALT"

\* C14: after a disconnect at most ReconnectionAttempts reconnection attempts
\* are made, and the step in which the last of them fails is reported: it
\* changes what the widget shows.
C14_BoundedRetryReported ==
    [][/\ (conn' = "reconnecting") => (attempts' < ReconnectionAttempts)
       /\ (conn = "closed") => (conn' = "closed")
       /\ (ListenersBound /\ conn = "reconnecting" /\ conn' = "closed") =>
              (status' # status \/ card' # card)]_vars

\* recorders that are recording on an open stream
ActiveCaptures == {r \in RecIds : rec[r] = "recording"}

\* C15: at most one capture (open stream with an active recorder) exists at
\* any time, whatever the interleaving of start gestures and acquisitions.
C15_AtMostOneCapture ==
    Cardinality(ActiveCaptures) <= 1

\* C16: once no recording is in progress, no acquisition is pending and every
\* stop callback has run, no acquired stream is still open.
C16_StreamsReleased ==
    (~isRecording /\ pendingAcq = 0 /\ \A r \in RecIds : rec[r] # "stopping") =>
        \A r \in RecIds : rec[r] \in {"unused", "released"}

\* C17: a POST /command is made for a recording only by its stop callback and
\* only once; every finalized recording has had exactly one; a failed upload
\* is followed by no further request for the same recording.
C17_OneUploadPerRecording ==
    [][\A r \in RecIds :
          /\ (posts'[r] # posts[r]) => (RecorderOnStop(r) /\ posts[r] = 0)
          /\ (rec'[r] = "released") => (posts'[r] = 1)
          /\ (upload'[r] = "done") => (posts'[r] = 1)]_vars

\* C17 witness: an upload has just failed, ERROR_SUBMIT is shown and one
\* request has been made for that recording.
C17_Witness ==
    /\ last = "submit_fail"
    /\ status = "ERROR_SUBMIT"
    /\ \E r \in RecIds : upload[r] = "done" /\ rec[r] = "released" /\ posts[r] = 1

\* C18: a failed submission (non-2xx response or transport failure) puts the
\* state in ERROR_SUBMIT and leaves the current session id as it was; a
\* successful one makes the returned session id the current session id.
C18_SubmissionOutcome ==
    [][upload' # upload =>
          /\ \A r \in RecIds : SubmitFail(r) =>
                 (status' = "ERROR_SUBMIT" /\ currentSessionId' = currentSessionId)
          /\ \A r \in RecIds, sid \in Ids : SubmitOk(r, sid) =>
                 (currentSessionId' = sid)]_vars

\* C18 witness: a submission has just failed after an earlier one succeeded:
\* ERROR_SUBMIT is shown and the earlier session id is still current.
C18_Witness ==
    /\ last = "submit_fail"
    /\ status = "ERROR_SUBMIT"
    /\ currentSessionId \in Ids
    /\ \A r \in RecIds : upload[r] = "done"

\* C19: every user_decision is emitted by approve() or cancel() from an open
\* approval card, carries the session id that card captured and the outcome
\* chosen ("approved" for approve(), "cancelled" for cancel()), and leaves
\* the state RESUMING.
C19_DecisionCarriesRequestAndChoice ==
    [][Emits =>
          /\ Approve \/ Cancel
          /\ card.open
          /\ outbox' = Append(outbox, Emitted)
          /\ Emitted.session_id = card.session_id
          /\ Approve => Emitted.decision = "approved"
          /\ Cancel => Emitted.decision = "cancelled"
          /\ status' = "RESUMING"]_vars

\* C19 witness: cancel() has just emitted a decision for the request shown.
C19_Witness ==
    /\ last = "cancelled"
    /\ status = "RESUMING"
    /\ outbox # <<>>
    /\ outbox[Len(outbox)].decision = "cancelled"

\* C20: while the channel is down after a disconnect, no gesture and no late
\* completion moves the state away from CRITICAL_HALT.
C20_HaltAbsorbingWhileDown ==
    [][(status = "CRITICAL_HALT" /\ conn # "connected" /\ conn' # "connected") =>
          (status' = "CRITICAL_HALT")]_vars

\* C21: in AWAITING_APPROVAL and in CRITICAL_HALT the microphone control is
\* disabled and no capture is started, and none is started while the channel
\* is down after a disconnect.
C21_MicDisabledWhilePaused ==
    [][/\ (status \in {"AWAITING_APPROVAL", "CRITICAL_HALT"}) => ~MicBound
       /\ (MicClick /\ ~isRecording) =>
              /\ status \notin {"AWAITING_APPROVAL", "CRITICAL_HALT"}
              /\ conn # "reconnecting"]_vars

\* C22: the blob uploaded for a recording holds exactly that recording's own
\* fragment and nothing left over from another recording, also when another
\* recording was started before its stop callback ran.
C22_BlobIsOwnFragments ==
    [][\A r \in RecIds : RecorderOnStop(r) => (AudioBlob = 1)]_vars

\* C23: a halt gesture emits exactly one halt_session carrying the current
\* session id when one is set and nothing when none is set, and leaves the
\* current session id, the approval cards and the decisions sent as they were.
C23_HaltFrame ==
    [][HaltClick =>
          /\ halts' = IF currentSessionId \in Ids
                      THEN Append(halts, [session_id |-> currentSessionId])
                      ELSE halts
          /\ currentSessionId' = currentSessionId
          /\ cards' = cards
          /\ outbox' = outbox]_vars

\* C23 witness: a halt has just been sent for the current session while an
\* approval card for it is in the chat area.
C23_Witness ==
    /\ last = "halt"
    /\ currentSessionId \in Ids
    /\ halts # <<>>
    /\ halts[Len(halts)].session_id = currentSessionId
    /\ cards[currentSessionId] > 0

\* the scripts that have loaded or are loading
Started == inject.loaded \cup ({inject.loading} \ {NoScript})

\* the scripts before f in the chain
Before(f) == {Scripts[j] : j \in 1..(ScriptIndex(f) - 1)}

\* C24: a script is loading or loaded only when every script before it in
\* the chain has finished loading; after a failed load no later script is
\* loaded; and a chain that stopped short has logged the script that failed.
C24_StrictLoadOrder ==
    /\ \A f \in Started : Before(f) \subseteq inject.loaded
    /\ inject.error # Null =>
           (inject.loading = NoScript /\ inject.loaded = Before(inject.error))
    /\ (inject.loading = NoScript /\ inject.loaded # Injected.loaded) =>
           inject.error # Null

\* C24 witness: socket.js failed to load after the library had loaded: app.js
\* was never started and the failure is logged.
C24_Witness ==
    /\ inject.error = "socket.js"
    /\ inject.loaded = {"lib/socket.io.min.js"}
    /\ inject.loading = NoScript

\* C25: whenever isRecording is true the microphone control is enabled and
\* bound, whatever status events arrived during the recording.
C25_RecordingCanBeStopped ==
    isRecording => MicBound

\* the response that has just arrived was a success for a command recorded
\* after recording r: every upload answered so far is newer than r's
NewerAnswered(r) ==
    /\ last = "submit_ok"
    /\ \A r2 \in RecIds : upload[r2] = "done" => r2 > r

\* C26: with several uploads in flight the newest submission wins: once a
\* newer command's upload has succeeded, the late failure of an older upload
\* does not put ERROR_SUBMIT over the newer session's state and the late
\* success of an older upload does not replace the newer session id.
C26_NewestSubmissionWins ==
    [][\A r \in RecIds :
          /\ (SubmitFail(r) /\ NewerAnswered(r)) => (status' # "ERROR_SUBMIT")
          /\ \A sid \in Ids :
                 (SubmitOk(r, sid) /\ NewerAnswered(r)) =>
                     (currentSessionId' = currentSessionId)]_vars

\* the approve and cancel buttons are shown and a click on either emits
DecisionEnabled == card.open /\ card.session_id \in Ids /\ conn # "absent"

\* C27: while the channel is connected and the widget is rendered, the
\* microphone control or the approve/cancel pair is enabled; in particular
\* when the microphone is disabled for AWAITING_APPROVAL, approve and cancel
\* are shown and each emits a decision when used.
C27_SomeInputEnabled ==
    (inited /\ conn = "connected") => (MicBound \/ DecisionEnabled)
====
